---------------------------- MODULE Spec2Model ----------------------------
(***************************************************************************)
(* Meta-tile file storage (src/store.c): the container format, the single  *)
(* tile reader with its standalone fallback, and the pack / unpack         *)
(* workflows, as a state machine over a small filesystem.                  *)
(*                                                                         *)
(* File contents are sequences of runs [id, from, len]: `len` consecutive  *)
(* bytes, starting at byte `from`, of the byte source `id` (a rendered     *)
(* tile, or the header area of a container).  Byte counts are plain        *)
(* integers, so the buffer capacities of the code keep their real values.  *)
(***************************************************************************)
EXTENDS Integers, Sequences, FiniteSets, TLC

VARIABLES
    tiles,   \* standalone tile files: tile path -> bytes (DOMAIN = existing files)
    metas,   \* container files: meta path -> [m, data] (DOMAIN = existing files)
    orig,    \* the tiles as the renderer first produced them
    zoom,    \* the zoom level the run works on
    pre,     \* [tiles, metas] as they were before the last operation
    last,    \* what the last operation did and returned
    steps,   \* operations done so far
    faults   \* failed system calls and damaged containers so far

vars == <<tiles, metas, orig, zoom, pre, last, steps, faults>>

-----------------------------------------------------------------------------
(* Bounds of the model *)

MaxZoom == 3
MaxSteps == 4
MaxFaults == 1
\* for the runs of the read loops alone: bytes in a file, and read() calls
\* whose count is chosen freely
MaxLen == 3
MaxCalls == 3

(* Program constants *)

METATILE == 8
META_MAGIC == "META"
sizeof_meta_layout == 20
sizeof_entry == 8
sizeof_header == 4096
pack_buf_len == 10 * 1024 * 1024
unpack_buf_len == 1024 * 1024
SIZE_MAX == 2147483647
OFF_MAX == 1073741823

Min(a, b) == IF a < b THEN a ELSE b
Max(a, b) == IF a > b THEN a ELSE b

RECURSIVE Pow2(_)
Pow2(n) == IF n = 0 THEN 1 ELSE 2 * Pow2(n - 1)

\* process_meta line 158: sizeof(struct meta_layout) + sizeof(struct entry) * METATILE^2
header_size == sizeof_meta_layout + (sizeof_entry * (METATILE * METATILE))

-----------------------------------------------------------------------------
(* Bytes *)

HDR == 0
TileId(x, y, z) == 1 + y + 1000 * x + 1000000 * z

RECURSIVE BLenFrom(_, _)
BLenFrom(b, i) == IF i > Len(b) THEN 0 ELSE b[i].len + BLenFrom(b, i + 1)
BLen(b) == BLenFrom(b, 1)

\* the whole runs of b, from the i-th on, that fit in n bytes, and the bytes left over
RECURSIVE Fit(_, _, _)
Fit(b, n, i) ==
    IF i > Len(b) \/ b[i].len > n THEN [k |-> i - 1, rest |-> n]
    ELSE Fit(b, n - b[i].len, i + 1)

BTake(b, n) ==
    IF n <= 0 THEN <<>>
    ELSE LET f == Fit(b, n, 1)
         IN IF f.k = Len(b) \/ f.rest = 0 THEN SubSeq(b, 1, f.k)
            ELSE Append(SubSeq(b, 1, f.k), [b[f.k + 1] EXCEPT !.len = f.rest])

BDrop(b, n) ==
    IF n <= 0 THEN b
    ELSE LET f == Fit(b, n, 1)
         IN IF f.k = Len(b) THEN <<>>
            ELSE IF f.rest = 0 THEN SubSeq(b, f.k + 1, Len(b))
            ELSE <<[b[f.k + 1] EXCEPT !.from = @ + f.rest, !.len = @ - f.rest]>>
                     \o SubSeq(b, f.k + 2, Len(b))

BSub(b, off, n) == BTake(BDrop(b, off), n)

BCat(a, b) ==
    IF a = <<>> THEN b
    ELSE IF b = <<>> THEN a
    ELSE LET l == a[Len(a)]
             h == Head(b)
         IN IF l.id = h.id /\ l.from + l.len = h.from
            THEN SubSeq(a, 1, Len(a) - 1) \o <<[l EXCEPT !.len = @ + h.len]>> \o Tail(b)
            ELSE a \o b

Fresh(id, n) == IF n = 0 THEN <<>> ELSE <<[id |-> id, from |-> 0, len |-> n]>>


-----------------------------------------------------------------------------
(* Addressing (dir_utils): the collaborators store.c calls *)

xyz_to_path(x, y, z) == <<x, y, z>>

xyz_to_meta(x, y, z) ==
    [path   |-> <<x - (x % METATILE), y - (y % METATILE), z>>,
     offset |-> ((x % METATILE) * METATILE) + (y % METATILE)]

\* returns rc # 0 for a name it cannot parse
path_to_xyz(name) ==
    IF name.shape = "bad" THEN [rc |-> 1, x |-> 0, y |-> 0, z |-> 0]
    ELSE IF name.shape = "meta"
    THEN [rc |-> 0, x |-> name.x - (name.x % METATILE),
          y |-> name.y - (name.y % METATILE), z |-> name.z]
    ELSE [rc |-> 0, x |-> name.x, y |-> name.y, z |-> name.z]

-----------------------------------------------------------------------------
(* The I/O layer: read(2), write(2), lseek(2) on regular files.            *)
(* `io` is the environment's behaviour during one call of a function:      *)
(*   chunk   how read/write split a transfer ("all", "half", "one"; or     *)
(*           "caps", with the most bytes each of the first calls moves in  *)
(*           the field caps)                                               *)
(*   fail    the system call that fails ("none", "open", "read", "read2",  *)
(*           "write", "write0", "unlink", "malloc")                        *)
(*   at      for a failing read the call that fails; for a failing write   *)
(*           the number of bytes accepted before it                        *)

NoFault == [chunk |-> "all", fail |-> "none", at |-> 0]

Chunk(io, n, calls) ==
    IF io.chunk = "half" THEN (n + 1) \div 2
    ELSE IF io.chunk = "one" /\ calls = 0 THEN Min(n, 1)
    ELSE IF io.chunk = "caps" /\ calls < Len(io.caps) THEN Min(n, io.caps[calls + 1])
    ELSE n

\* read(fd, buf, len) at file position fpos: -1, 0 at end-of-file, or a count
\* between 1 and len; `size` is the file's length
sys_read(size, fpos, len, io, failing, calls) ==
    IF failing /\ io.at = calls THEN -1
    ELSE Chunk(io, Min(len, Max(0, size - fpos)), calls)

\* write(fd, buf, len) with pos bytes already written: -1, 0, or a count
sys_write(pos, len, io) ==
    IF io.fail \in {"write", "write0"}
    THEN IF pos >= io.at THEN (IF io.fail = "write" THEN -1 ELSE 0)
         ELSE Min(len, io.at - pos)
    ELSE Chunk(io, len, pos)

\* an lseek() that refused positions beyond end-of-file
lseek_within_file(off, size) == IF off < 0 \/ off > size THEN -1 ELSE off

\* lseek(fd, off, SEEK_SET) on a file of `size` bytes: fails for a negative
\* offset only; a position beyond end-of-file is a valid one
sys_lseek(off, size) == IF off < 0 THEN -1 ELSE off

\* int -> size_t -> off_t, two's complement.  SIZE_MAX is the largest value
\* of the model's integers and stands for the largest size_t; OFF_MAX for
\* the largest off_t.
to_size_t(v) == IF v < 0 THEN SIZE_MAX + (v + 1) ELSE v
to_off_t(v) == IF v > OFF_MAX THEN (v - SIZE_MAX) - 1 ELSE v

\* one read() where the loop belongs: a short count is taken for the whole
read_once(size, start, want, io, failing, pos, calls) ==
    IF ~(pos < want) THEN [pos |-> pos, err |-> FALSE, calls |-> calls]
    ELSE LET got == sys_read(size, start + pos, want - pos, io, failing, calls)
         IN IF got < 0 THEN [pos |-> pos, err |-> TRUE, calls |-> calls + 1]
            ELSE [pos |-> pos + got, err |-> FALSE, calls |-> calls + 1]

\* The loop `pos = 0; while (pos < want) { got = read(fd, buf + pos, want - pos); ... }`
\* started at file position `start`.
RECURSIVE read_loop(_, _, _, _, _, _, _)
read_loop(size, start, want, io, failing, pos, calls) ==
    IF ~(pos < want) THEN [pos |-> pos, err |-> FALSE, calls |-> calls]
    ELSE LET len == want - pos
             got == sys_read(size, start + pos, len, io, failing, calls)
         IN IF got < 0 THEN [pos |-> pos, err |-> TRUE, calls |-> calls + 1]
            ELSE IF got > 0
            THEN read_loop(size, start, want, io, failing, pos + got, calls + 1)
            ELSE [pos |-> pos, err |-> FALSE, calls |-> calls + 1]

\* The loop `pos = 0; while (pos < sz) { len = write(fd, buf + pos, sz - pos); ... }`
RECURSIVE write_loop(_, _, _)
write_loop(sz, io, pos) ==
    IF ~(pos < sz) THEN [pos |-> pos, err |-> FALSE]
    ELSE LET len == sys_write(pos, sz - pos, io)
         IN IF len < 0 THEN [pos |-> pos, err |-> TRUE]
            ELSE IF len > 0 THEN write_loop(sz, io, pos + len)
            ELSE [pos |-> pos, err |-> FALSE]

-----------------------------------------------------------------------------
(* read_from_file, read_from_meta, tile_read                               *)
(* A result is [ret, data, extent, leaked]: the int returned, the bytes    *)
(* left in buf[0 .. ret), the highest buffer index a read was allowed to   *)
(* fill, and the descriptors opened and not closed.                        *)

Result(ret, data, extent, leaked) ==
    [ret |-> ret, data |-> data, extent |-> extent, leaked |-> leaked]

read_from_file(fs_tiles, x, y, z, sz, io) ==
    LET path == xyz_to_path(x, y, z)
    IN IF path \notin DOMAIN fs_tiles \/ io.fail = "open"
       THEN Result(-1, <<>>, 0, 0)
       ELSE LET r == read_loop(BLen(fs_tiles[path]), 0, sz, io, io.fail = "read", 0, 0)
            IN IF r.err THEN Result(-2, BSub(fs_tiles[path], 0, r.pos), Max(0, sz), 0)
               ELSE Result(r.pos, BSub(fs_tiles[path], 0, r.pos),
                           IF r.calls > 0 THEN sz ELSE 0, 0)

entry_end(slot) == sizeof_meta_layout + ((slot + 1) * sizeof_entry)

\* line 55: memcmp(m->magic, META_MAGIC, strlen(META_MAGIC)), a test that
\* took memcmp's 0 for a mismatch, and the test as written
magic_test_inverted(magic) == magic = META_MAGIC
bad_magic(magic) == magic # META_MAGIC

\* line 61
bad_count(count) == count # METATILE * METATILE

\* lines 78-81, without the clamp and with it
unclamped(tile_size, sz) == tile_size
clamp(tile_size, sz) == IF tile_size > sz THEN sz ELSE tile_size

\* `junk` is what the uninitialised part of header[] holds where the file
\* ended before the slot's entry.
read_from_meta(fs_metas, x, y, z, sz, io, junk) ==
    LET loc == xyz_to_meta(x, y, z)
    IN IF loc.path \notin DOMAIN fs_metas \/ io.fail = "open"
       THEN Result(-1, <<>>, 0, 0)
       ELSE
       LET f == fs_metas[loc.path]
           size == BLen(f.data)
           h == read_loop(size, 0, sizeof_header, io, io.fail = "read", 0, 0)
           e == IF entry_end(loc.offset) <= h.pos THEN f.m.index[loc.offset] ELSE junk
           file_offset == to_size_t(e.offset)
           tile_size == clamp(to_size_t(e.size), sz)
           r == read_loop(size, file_offset, tile_size, io, io.fail = "read2", 0, 0)
       IN IF h.err THEN Result(-2, <<>>, 0, 0)
          ELSE IF h.pos < sizeof_meta_layout THEN Result(-3, <<>>, 0, 1)
          ELSE IF bad_magic(f.m.magic) THEN Result(-4, <<>>, 0, 1)
          ELSE IF bad_count(f.m.count) THEN Result(-5, <<>>, 0, 1)
          ELSE IF sys_lseek(to_off_t(file_offset), size) < 0 THEN Result(-6, <<>>, 0, 1)
          ELSE IF r.err
          THEN Result(-7, BSub(f.data, file_offset, r.pos), tile_size, 0)
          ELSE Result(r.pos, BSub(f.data, file_offset, r.pos),
                      IF r.calls > 0 THEN tile_size ELSE 0, 0)

\* line 136, with a count of 0 taken for a failure, and as written: the
\* container's answer stands
positive_only(r) == r > 0
meta_answers(r) == r >= 0

\* [ret, data, extent, leaked, meta, copied, consulted]: meta is
\* read_from_meta's return value, copied the buffer room its payload loop was
\* given, consulted says whether the standalone file was opened
tile_answer(r, f) ==
    IF meta_answers(r.ret)
    THEN [ret |-> r.ret, data |-> r.data, extent |-> r.extent,
          leaked |-> r.leaked, meta |-> r.ret, copied |-> r.extent,
          consulted |-> FALSE]
    ELSE [ret |-> f.ret, data |-> f.data, extent |-> Max(r.extent, f.extent),
          leaked |-> r.leaked + f.leaked, meta |-> r.ret, copied |-> r.extent,
          consulted |-> TRUE]

\* lines 131-140: r is read_from_meta's result, f read_from_file's, which is
\* looked at only when the container did not answer
tile_read(fs_tiles, fs_metas, x, y, z, sz, io, junk, io2) ==
    tile_answer(read_from_meta(fs_metas, x, y, z, sz, io, junk),
                read_from_file(fs_tiles, x, y, z, sz, io2))

-----------------------------------------------------------------------------
(* What an operation leaves in `last` *)

NoLog ==
    [op |-> "init", status |-> "", x |-> 0, y |-> 0, z |-> 0, limit |-> 0,
     reads |-> {}, writes |-> {}, unlinks |-> {}, creat |-> {}, gone |-> {},
     res |-> <<>>, want |-> 0, pos |-> 0, leaked |-> 0, fail |-> "none", who |-> 0,
     sz |-> 0, fail2 |-> "none"]

\* the fault of an operation strikes its who-th sub-tile only
IoFor(io, who, k, kinds) ==
    IF who = k /\ io.fail \in kinds THEN io ELSE [io EXCEPT !.fail = "none"]

Remove(f, p) == [q \in (DOMAIN f) \ {p} |-> f[q]]
Store(f, p, v) == [q \in (DOMAIN f) \cup {p} |-> IF q = p THEN v ELSE f[q]]

\* lines 161-162 and 290-291, without the clipping and with it
unclipped(z) == METATILE
clip_limit(z) == Min(Pow2(z), METATILE)

\* the k-th sub-tile offset (1-based) of `for ox { for oy { ... } }`, with
\* the loops nested the other way round and as written
y_outer(limit, k) == [ox |-> (k - 1) % limit, oy |-> (k - 1) \div limit]
SubTile(limit, k) == [ox |-> (k - 1) \div limit, oy |-> (k - 1) % limit]

-----------------------------------------------------------------------------
(* process_meta, process_pack *)

ZeroIndex == [s \in 0 .. (METATILE * METATILE) - 1 |-> [offset |-> 0, size |-> 0]]

\* line 169, as a test for errors only, and as written
negative_only(len) == len < 0
sub_tile_failed(len) == len <= 0

\* lines 164-184: st = [offset, index, payload, reads, abort]
RECURSIVE pack_read(_, _, _, _, _, _, _, _, _)
pack_read(fs_tiles, x, y, z, limit, io, who, k, st) ==
    IF k > limit * limit THEN st
    ELSE LET o == SubTile(limit, k)
             r == read_from_file(fs_tiles, x + o.ox, y + o.oy, z,
                                 pack_buf_len - st.offset,
                                 IoFor(io, who, k, {"open", "read"}))
             mt == xyz_to_meta(x + o.ox, y + o.oy, z).offset
             seen == st.reads \cup {xyz_to_path(x + o.ox, y + o.oy, z)}
         IN IF sub_tile_failed(r.ret)
            THEN [st EXCEPT !.abort = TRUE, !.reads = seen]
            ELSE pack_read(fs_tiles, x, y, z, limit, io, who, k + 1,
                     [offset  |-> st.offset + r.ret,
                      index   |-> [st.index EXCEPT ![mt] =
                                      [offset |-> st.offset, size |-> r.ret]],
                      payload |-> BCat(st.payload, r.data),
                      reads   |-> seen,
                      abort   |-> FALSE])

\* lines 218-224: unlink() on each sub-tile's path, in the loops' order; the
\* paths differ, so the files left are those no successful unlink() named
pack_unlink(fs_tiles, x, y, z, limit, io, who) ==
    LET path(k) == xyz_to_path(x + SubTile(limit, k).ox, y + SubTile(limit, k).oy, z)
        ks == 1 .. limit * limit
        removed == {path(k) : k \in {j \in ks : ~(io.fail = "unlink" /\ who = j)}}
    IN [tiles |-> [q \in (DOMAIN fs_tiles) \ removed |-> fs_tiles[q]],
        unlinks |-> {path(k) : k \in ks}]

BlockPaths(x, y, z, limit) ==
    {xyz_to_path(x + ox, y + oy, z) : ox \in 0 .. limit - 1, oy \in 0 .. limit - 1}

\* lines 202-206: the write loop returns from process_meta on an error only
write_failed(w) == w.err

\* lines 199-225: the container written, w being the write loop's outcome,
\* and the sub-tiles unlinked
pack_write(fs_tiles, fs_metas, x, y, z, limit, io, who, log, st, w) ==
    LET m == [magic |-> META_MAGIC, count |-> METATILE * METATILE,
              x |-> x, y |-> y, z |-> z, index |-> st.index]
        buf == BCat(Fresh(HDR, header_size), st.payload)
        meta_path == xyz_to_meta(x, y, z).path
        written == Store(fs_metas, meta_path, [m |-> m, data |-> BTake(buf, w.pos)])
        wlog == [log EXCEPT !.reads = st.reads, !.creat = {meta_path},
                            !.want = st.offset, !.pos = w.pos]
    IN IF write_failed(w)
       THEN [tiles |-> fs_tiles, metas |-> written,
             log |-> [wlog EXCEPT !.status = "writeerr"]]
       ELSE LET u == pack_unlink(fs_tiles, x, y, z, limit, io, who)
            IN [tiles |-> u.tiles, metas |-> written,
                log |-> [wlog EXCEPT !.status = "done", !.unlinks = u.unlinks]]

\* lines 185-225: what follows the read loops, st being what they left
pack_store(fs_tiles, fs_metas, x, y, z, limit, io, who, log, st) ==
    IF st.abort
    THEN [tiles |-> fs_tiles, metas |-> fs_metas,
          log |-> [log EXCEPT !.status = "abort", !.reads = st.reads]]
    ELSE IF io.fail = "creat"
    THEN [tiles |-> fs_tiles, metas |-> fs_metas,
          log |-> [log EXCEPT !.status = "nocreate", !.reads = st.reads,
                              !.want = st.offset]]
    ELSE pack_write(fs_tiles, fs_metas, x, y, z, limit, io, who, log, st,
                    write_loop(st.offset, io, 0))

process_meta(fs_tiles, fs_metas, x, y, z, io, who) ==
    LET limit == clip_limit(z)
        log == [NoLog EXCEPT !.op = "pack", !.x = x, !.y = y, !.z = z,
                             !.limit = limit, !.fail = io.fail, !.who = who]
    IN IF io.fail = "malloc"
       THEN [tiles |-> fs_tiles, metas |-> fs_metas,
             log |-> [log EXCEPT !.status = "nomem"]]
       ELSE pack_store(fs_tiles, fs_metas, x, y, z, limit, io, who, log,
                pack_read(fs_tiles, x, y, z, limit, io, who, 1,
                          [offset |-> header_size, index |-> ZeroIndex,
                           payload |-> <<>>, reads |-> {}, abort |-> FALSE]))

\* line 240, as a test that lets every slot through, and as written
any_slot(meta_offset) == meta_offset >= 0
block_aligned(meta_offset) == meta_offset = 0

process_pack(fs_tiles, fs_metas, name, io, who) ==
    LET a == path_to_xyz(name)
        meta_offset == xyz_to_meta(a.x, a.y, a.z).offset
    IN IF a.rc # 0
       THEN [tiles |-> fs_tiles, metas |-> fs_metas,
             log |-> [NoLog EXCEPT !.op = "pack", !.status = "badname", !.fail = io.fail]]
       ELSE IF block_aligned(meta_offset)
       THEN process_meta(fs_tiles, fs_metas, a.x, a.y, a.z, io, who)
       ELSE [tiles |-> fs_tiles, metas |-> fs_metas,
             log |-> [NoLog EXCEPT !.op = "pack", !.status = "unaligned", !.fail = io.fail,
                                   !.x = a.x, !.y = a.y, !.z = a.z]]

-----------------------------------------------------------------------------
(* write_tile, process_unpack *)

\* [tiles, opened]
write_tile(fs_tiles, x, y, z, buf, sz, io) ==
    LET path == xyz_to_path(x, y, z)
        w == write_loop(sz, io, 0)
    IN IF io.fail = "creat" THEN [tiles |-> fs_tiles, opened |-> FALSE]
       ELSE [tiles |-> Store(fs_tiles, path, BTake(buf, w.pos)), opened |-> TRUE]

\* line 297
slot_failed(len) == len <= 0

\* lines 297-300: what one pass leaves, r being read_from_meta's result and w
\* write_tile's: [path, ret, data, leaked, opened, file]
slot_outcome(p, r, w) ==
    IF slot_failed(r.ret)
    THEN [path |-> p, ret |-> r.ret, data |-> r.data, leaked |-> r.leaked,
          opened |-> FALSE, file |-> <<>>]
    ELSE [path |-> p, ret |-> r.ret, data |-> r.data, leaked |-> r.leaked,
          opened |-> w.opened, file |-> IF w.opened THEN w.tiles[p] ELSE <<>>]

\* lines 298-299: write_tile(x + ox, y + oy, z, buf, len)
slot_write(fs_tiles, x, y, z, io, r) ==
    slot_outcome(xyz_to_path(x, y, z), r, write_tile(fs_tiles, x, y, z, r.data, r.ret, io))

\* lines 295-300, one pass of the loops
unpack_slot(fs_tiles, fs_metas, x, y, z, limit, io, who, junk, k) ==
    LET o == SubTile(limit, k)
    IN slot_write(fs_tiles, x + o.ox, y + o.oy, z,
                  IoFor(io, who, k, {"creat", "write", "write0"}),
                  read_from_meta(fs_metas, x + o.ox, y + o.oy, z, unpack_buf_len,
                                 IoFor(io, who, k, {"open", "read", "read2"}), junk))

RECURSIVE SumLeaked(_)
SumLeaked(slots) ==
    IF slots = {} THEN 0
    ELSE LET s == CHOOSE t \in slots : TRUE IN s.leaked + SumLeaked(slots \ {s})

\* lines 293-306, after the passes `slots` of the loops.  The passes read the
\* containers, which no pass changes, and write one path each, so each is
\* taken on the files as they were when the loops began.
unpack_passes(fs_tiles, fs_metas, meta_path, log, io, slots) ==
    LET wrote == {s \in slots : s.opened}
        at(p) == CHOOSE s \in slots : s.path = p
    IN [tiles |-> [q \in (DOMAIN fs_tiles) \cup {s.path : s \in wrote} |->
                      IF q \in {s.path : s \in wrote} THEN at(q).file
                      ELSE fs_tiles[q]],
        metas |-> IF meta_path \in DOMAIN fs_metas /\ io.fail # "unlink"
                  THEN Remove(fs_metas, meta_path) ELSE fs_metas,
        log |-> [log EXCEPT !.status = "done",
                    !.reads = {s.path : s \in slots},
                    !.writes = {s.path : s \in wrote},
                    !.res = [p \in {s.path : s \in slots} |->
                                [ret |-> at(p).ret, data |-> at(p).data]],
                    !.leaked = SumLeaked(slots),
                    !.gone = {meta_path}]]

\* lines 274-307
process_unpack(fs_tiles, fs_metas, name, io, who, junk) ==
    LET a == path_to_xyz(name)
        limit == clip_limit(a.z)
        log == [NoLog EXCEPT !.op = "unpack", !.x = a.x, !.y = a.y, !.z = a.z,
                             !.limit = limit, !.fail = io.fail, !.who = who]
    IN IF a.rc # 0
       THEN [tiles |-> fs_tiles, metas |-> fs_metas,
             log |-> [NoLog EXCEPT !.op = "unpack", !.status = "badname",
                                   !.fail = io.fail]]
       ELSE IF io.fail = "malloc"
       THEN [tiles |-> fs_tiles, metas |-> fs_metas,
             log |-> [log EXCEPT !.status = "nomem"]]
       ELSE unpack_passes(fs_tiles, fs_metas, xyz_to_meta(a.x, a.y, a.z).path, log, io,
                {unpack_slot(fs_tiles, fs_metas, a.x, a.y, a.z, limit, io, who, junk, k) :
                     k \in 1 .. limit * limit})

-----------------------------------------------------------------------------
(* The filesystem a run starts from: the renderer has produced the tiles   *)
(* of one zoom level, and no container exists yet.                         *)

Profiles == {"small", "missing", "empty", "huge", "giant", "big"}

\* one byte more than an even share of process_meta's buffer
BigTile == ((pack_buf_len - header_size) \div (METATILE * METATILE)) + 1

Side(z) == Pow2(z)
LastXY(z) == Side(z) - 1

TileSize(profile, x, y, z) ==
    IF profile = "big" THEN BigTile
    ELSE IF profile = "huge" /\ x = 0 /\ y = 0 THEN unpack_buf_len + 1
    ELSE IF profile = "giant" /\ x = 0 /\ y = 0 THEN pack_buf_len
    ELSE IF profile = "empty" /\ x = LastXY(z) /\ y = LastXY(z) THEN 0
    ELSE 1 + ((x + (2 * y)) % 3)

Rendered(profile, z) ==
    LET all == {<<x, y, z>> : x \in 0 .. LastXY(z), y \in 0 .. LastXY(z)}
        dom == IF profile = "missing" THEN all \ {<<LastXY(z), LastXY(z), z>>} ELSE all
    IN [p \in dom |-> Fresh(TileId(p[1], p[2], p[3]), TileSize(profile, p[1], p[2], p[3]))]

Init ==
    /\ zoom \in 0 .. MaxZoom
    /\ \E profile \in Profiles : tiles = Rendered(profile, zoom)
    /\ metas = <<>>
    /\ orig = tiles
    /\ pre = [tiles |-> tiles, metas |-> metas]
    /\ last = NoLog
    /\ steps = 0
    /\ faults = 0

-----------------------------------------------------------------------------
(* The callers and the environment.  The caller of pack and unpack passes  *)
(* names of the zoom level at hand; at most MaxFaults system calls fail or *)
(* containers get damaged in a run.                                        *)

Aligned == [shape |-> "tile", x |-> 0, y |-> 0, z |-> zoom]
Names ==
    {[shape |-> "bad", x |-> 0, y |-> 0, z |-> zoom],
     Aligned,
     [shape |-> "tile", x |-> 1, y |-> 0, z |-> zoom],
     [shape |-> "meta", x |-> 0, y |-> 0, z |-> zoom]}

Chunks == {"all", "half", "one"}
Sound == {[chunk |-> c, fail |-> "none", at |-> 0] : c \in Chunks}
Failing(kinds, ats) == {[chunk |-> "all", fail |-> f, at |-> a] : f \in kinds, a \in ats}

PackFaults ==
    Failing({"malloc", "open", "read", "creat", "unlink"}, {0})
        \cup Failing({"write", "write0"}, {0, sizeof_meta_layout, header_size + 1})
UnpackFaults ==
    Failing({"malloc", "open", "read", "read2", "creat", "unlink"}, {0})
        \cup Failing({"write", "write0"}, {0, 1})
ReadFaults == Failing({"open", "read", "read2"}, {0})

\* the environments of a call: sound ones, and failing ones while the run may
\* still see a fault
Envs(name, failing) ==
    IF name = Aligned
    THEN Sound \cup (IF faults < MaxFaults THEN failing ELSE {})
    ELSE {NoFault}

Whos == {1, clip_limit(zoom) * clip_limit(zoom)}

\* what the uninitialised part of header[] may hold; it is read only when a
\* container ends inside its index table
Junk ==
    IF \E p \in DOMAIN metas : BLen(metas[p].data) < header_size
    THEN {[offset |-> 0, size |-> 0], [offset |-> header_size, size |-> 2]}
    ELSE {[offset |-> 0, size |-> 0]}

Capacities == {0, 2, unpack_buf_len}

\* An operation that changed no file is not followed by another one: the run
\* without it reaches the same files.
Settled == last.op = "init" \/ pre.tiles # tiles \/ pre.metas # metas

Ready == steps < MaxSteps /\ Settled

Done(r, io) ==
    /\ tiles' = r.tiles
    /\ metas' = r.metas
    /\ last' = r.log
    /\ pre' = [tiles |-> tiles, metas |-> metas]
    /\ steps' = steps + 1
    /\ faults' = faults + (IF io.fail = "none" THEN 0 ELSE 1)
    /\ UNCHANGED <<orig, zoom>>

Pack ==
    /\ Ready
    /\ \E name \in Names : \E io \in Envs(name, PackFaults) :
       \E who \in (IF io.fail \in {"open", "read", "unlink"} THEN Whos ELSE {1}) :
          Done(process_pack(tiles, metas, name, io, who), io)

Unpack ==
    /\ Ready
    /\ \E name \in Names : \E io \in Envs(name, UnpackFaults) :
       \E who \in (IF io.fail \in {"none", "malloc", "unlink"} THEN {1} ELSE Whos) :
       \E junk \in Junk :
          Done(process_unpack(tiles, metas, name, io, who, junk), io)

\* the record a tile_read that returned r leaves
ReadLog(a, sz, io, io2, r) ==
    [NoLog EXCEPT !.op = "read", !.status = "done",
                  !.x = a[1], !.y = a[2], !.z = a[3], !.sz = sz,
                  !.fail = io.fail, !.fail2 = io2.fail, !.res = r,
                  !.leaked = r.leaked]

ReadAddrs == {<<0, 0, zoom>>, <<LastXY(zoom), LastXY(zoom), zoom>>}

TileRead ==
    /\ Ready
    /\ \E a \in ReadAddrs : \E sz \in Capacities : \E junk \in Junk :
       \E io \in Envs(Aligned, ReadFaults) :
       \E io2 \in {NoFault} \cup
                  (IF faults < MaxFaults /\ io.fail = "none"
                   THEN Failing({"read"}, {0}) ELSE {}) :
          Done([tiles |-> tiles, metas |-> metas,
                log |-> ReadLog(a, sz, io, io2,
                                tile_read(tiles, metas, a[1], a[2], a[3], sz, io, junk, io2))],
               IF io.fail = "none" THEN io2 ELSE io)

\* The renderer produces the zoom level's tiles again.
Render ==
    /\ Ready
    /\ Done([tiles |-> [p \in DOMAIN tiles \cup DOMAIN orig |->
                           IF p \in DOMAIN orig THEN orig[p] ELSE tiles[p]],
             metas |-> metas,
             log |-> [NoLog EXCEPT !.op = "render"]], NoFault)

\* Damage to the container of block (0, 0): a truncation, a header field or
\* one index entry overwritten.
LastSlot ==
    xyz_to_meta(Min(LastXY(zoom), METATILE - 1), Min(LastXY(zoom), METATILE - 1), zoom).offset

Truncate(f, n) == [f EXCEPT !.data = BTake(@, n)]
SetEntry(f, slot, e) == [f EXCEPT !.m.index[slot] = e]

Damaged(f) ==
    {Truncate(f, n) : n \in {sizeof_meta_layout - 1, sizeof_meta_layout, entry_end(0),
                             header_size, BLen(f.data) - 1}}
    \cup {[f EXCEPT !.m.magic = "ATEM"], [f EXCEPT !.m.count = 16]}
    \cup UNION {{SetEntry(f, s, [f.m.index[s] EXCEPT !.offset = BLen(f.data) + 5]),
                 SetEntry(f, s, [f.m.index[s] EXCEPT !.offset = -1]),
                 SetEntry(f, s, [f.m.index[s] EXCEPT !.offset = 0]),
                 SetEntry(f, s, [f.m.index[s] EXCEPT !.size = @ + 1]),
                 SetEntry(f, s, [f.m.index[s] EXCEPT !.size = -1]),
                 SetEntry(f, s, [f.m.index[s] EXCEPT !.size = 0])} : s \in {0, LastSlot}}

Spoil ==
    /\ Ready
    /\ faults < MaxFaults
    /\ <<0, 0, zoom>> \in DOMAIN metas
    /\ \E f \in Damaged(metas[<<0, 0, zoom>>]) :
          /\ metas' = [metas EXCEPT ![<<0, 0, zoom>>] = f]
          /\ last' = [NoLog EXCEPT !.op = "spoil"]
          /\ pre' = [tiles |-> tiles, metas |-> metas]
          /\ steps' = steps + 1
          /\ faults' = faults + 1
          /\ UNCHANGED <<tiles, orig, zoom>>

Next == Pack \/ Unpack \/ TileRead \/ Render \/ Spoil

Spec == Init /\ [][Next]_vars

-----------------------------------------------------------------------------
(* Notions the properties share *)

Top == <<0, 0, zoom>>
Block == BlockPaths(0, 0, zoom, clip_limit(zoom))

\* the last operation acted on the block at (0, 0)
OnTop == last.x = 0 /\ last.y = 0 /\ last.z = zoom

\* every tile of the block was rendered with at least one byte
FullBlock == \A p \in Block : p \in DOMAIN orig /\ orig[p] # <<>>

RECURSIVE TotalLen(_, _)
TotalLen(f, ps) ==
    IF ps = {} THEN 0
    ELSE LET p == CHOOSE q \in ps : TRUE IN BLen(f[p]) + TotalLen(f, ps \ {p})

\* the block fits process_meta's buffer and each tile process_unpack's
FitsBuffers ==
    /\ \A p \in Block : BLen(orig[p]) <= unpack_buf_len
    /\ header_size + TotalLen(orig, Block) <= pack_buf_len

\* what a pack of the rendered tiles leaves when no system call fails
PackedOrig == process_pack(orig, <<>>, Aligned, NoFault, 1)

\* the last operation was an unpack, with no failing system call, of the
\* undamaged container that a pack of the rendered tiles produced
UnpackedPacked ==
    /\ last.op = "unpack" /\ last.status = "done" /\ last.fail = "none" /\ OnTop
    /\ FullBlock
    /\ pre.tiles = PackedOrig.tiles
    /\ pre.metas = PackedOrig.metas
    /\ Top \in DOMAIN pre.metas

-----------------------------------------------------------------------------
(* C1: pack then unpack gives back, at every address of the block, a       *)
(* standalone file with the bytes of the original, and no container        *)
(* remains.  Stated for runs in which no system call fails and no          *)
(* container is damaged.                                                   *)
C1_RoundTrip == UnpackedPacked => (tiles = orig /\ DOMAIN metas = {})

\* The round trip does hold for blocks that fit the two working buffers.
RoundTripWithinBuffers ==
    (UnpackedPacked /\ FitsBuffers) => (tiles = orig /\ DOMAIN metas = {})
RoundTripReached == UnpackedPacked /\ FitsBuffers /\ zoom = MaxZoom

-----------------------------------------------------------------------------
(* C2: a pack that meets a missing, unreadable or empty sub-tile leaves    *)
(* every file as it was: no container is created, truncated or changed,    *)
(* no standalone tile is deleted.                                          *)

\* process_meta ran on the block and one of its sub-tiles was missing or
\* empty, or reading it failed
BadSubTile ==
    /\ last.op = "pack" /\ last.status \notin {"badname", "unaligned"}
    /\ \/ \E p \in Block : p \notin DOMAIN pre.tiles \/ pre.tiles[p] = <<>>
       \/ last.fail \in {"open", "read"}

C2_FailClosedPack == BadSubTile => (tiles = pre.tiles /\ metas = pre.metas)

\* a pack gave up on a block whose container already existed
C2_Witness ==
    /\ BadSubTile /\ last.status = "abort"
    /\ Top \in DOMAIN pre.metas
    /\ \E p \in Block : p \in DOMAIN pre.tiles

-----------------------------------------------------------------------------
(* C3: pack deletes standalone tiles only after the whole container,       *)
(* header, index and payload, was written.                                 *)
C3_DeleteAfterFullWrite ==
    (last.op = "pack" /\ \E p \in DOMAIN pre.tiles : p \notin DOMAIN tiles)
        => (last.pos = last.want /\ BLen(metas[Top].data) = last.want)

-----------------------------------------------------------------------------
(* Containers as the readers see them *)

Slot(p) == xyz_to_meta(p[1], p[2], p[3]).offset
Entry(f, p) == f.m.index[Slot(p)]

\* the header and the whole index table are in the file and pass the tests
ValidHeader(f) ==
    /\ BLen(f.data) >= header_size
    /\ f.m.magic = META_MAGIC
    /\ f.m.count = METATILE * METATILE

\* the container holds the tile at p: its entry names a non-empty range of
\* bytes that lies in the file
Held(f, p) ==
    /\ ValidHeader(f)
    /\ Entry(f, p).size > 0 /\ Entry(f, p).offset >= 0
    /\ Entry(f, p).offset + Entry(f, p).size <= BLen(f.data)

Payload(f, p) == BSub(f.data, Entry(f, p).offset, Entry(f, p).size)

\* the entry's offset lies beyond end-of-file
BeyondEOF(f, p) == Entry(f, p).offset > BLen(f.data)

-----------------------------------------------------------------------------
(* C4: in every state where process_unpack has unlinked the container,     *)
(* each tile the container held exists as a standalone file with the same  *)
(* bytes.  Stated for runs in which no system call fails and no container  *)
(* is damaged.                                                             *)
C4_UnlinkAfterRematerialized ==
    (/\ last.op = "unpack" /\ OnTop /\ faults = 0
     /\ Top \in DOMAIN pre.metas /\ Top \notin DOMAIN metas)
        => \A p \in Block :
               Held(pre.metas[Top], p)
                   => (p \in DOMAIN tiles /\ tiles[p] = Payload(pre.metas[Top], p))

-----------------------------------------------------------------------------
(* C5: when the index entry of one slot of the block has an offset beyond  *)
(* end-of-file, unpack writes a standalone file with the slot's bytes for  *)
(* every other slot and writes none for that slot, for which the read      *)
(* reported no bytes.                                                      *)

\* the last operation was an unpack, with no failing system call, of a
\* container in which exactly the entry of `bad` points beyond end-of-file
OneSlotBeyondEOF(bad) ==
    /\ last.op = "unpack" /\ last.status = "done" /\ last.fail = "none" /\ OnTop
    /\ Top \in DOMAIN pre.metas
    /\ ValidHeader(pre.metas[Top])
    /\ BeyondEOF(pre.metas[Top], bad)
    /\ \A p \in Block \ {bad} : Held(pre.metas[Top], p)

FailOpen(bad) ==
    /\ \A p \in Block \ {bad} :
           p \in DOMAIN tiles /\ tiles[p] = Payload(pre.metas[Top], p)
    /\ bad \notin last.writes
    /\ last.res[bad].ret <= 0

C5_FailOpenUnpack == \A bad \in Block : OneSlotBeyondEOF(bad) => FailOpen(bad)

\* Unpack is fail-open in this sense when every other tile fits its buffer.
FailOpenWithinBuffer ==
    \A bad \in Block :
        (/\ OneSlotBeyondEOF(bad)
         /\ \A p \in Block \ {bad} : Entry(pre.metas[Top], p).size <= unpack_buf_len)
            => FailOpen(bad)
FailOpenReached ==
    \E bad \in Block :
        /\ OneSlotBeyondEOF(bad) /\ Block # {bad}
        /\ \A p \in Block \ {bad} : Entry(pre.metas[Top], p).size <= unpack_buf_len

-----------------------------------------------------------------------------
(* C6: for a container that is long enough and whose magic is not          *)
(* META_MAGIC or whose count is not METATILE * METATILE, read_from_meta    *)
(* returns a negative result and copies no payload, and tile_read returns  *)
(* what reading the standalone file of the address gives.                  *)

\* the last operation was a tile_read whose container is long enough and
\* has a wrong magic or count
ReadRejected ==
    /\ last.op = "read"
    /\ xyz_to_meta(last.x, last.y, last.z).path \in DOMAIN metas
    /\ LET f == metas[xyz_to_meta(last.x, last.y, last.z).path]
       IN /\ BLen(f.data) >= header_size
          /\ f.m.magic # META_MAGIC \/ f.m.count # METATILE * METATILE

\* what reading the standalone file gives, from the files themselves
StandaloneAnswer ==
    LET p == <<last.x, last.y, last.z>>
    IN IF p \notin DOMAIN tiles THEN last.res.ret = -1
       ELSE IF last.fail2 = "read" /\ last.sz > 0 THEN last.res.ret = -2
       ELSE /\ last.res.ret = Min(last.sz, BLen(tiles[p]))
            /\ last.res.data = BTake(tiles[p], last.res.ret)

C6_MagicCountRejection ==
    ReadRejected =>
        /\ last.res.meta < 0
        /\ last.res.copied = 0
        /\ last.res.consulted
        /\ StandaloneAnswer

\* a rejected container beside a standalone file that gave its bytes
C6_Witness ==
    /\ ReadRejected /\ last.res.meta \in {-4, -5}
    /\ last.res.ret > 0 /\ last.res.data # <<>>
C6_WitnessCount == ReadRejected /\ last.res.meta = -5 /\ last.res.ret > 0

-----------------------------------------------------------------------------
(* Reads of a container *)

ReadPath == <<last.x, last.y, last.z>>
ReadMeta == metas[xyz_to_meta(last.x, last.y, last.z).path]

\* the last operation was a tile_read that found a container and met no
\* failing system call
ReadOfContainer ==
    /\ last.op = "read" /\ last.fail = "none"
    /\ xyz_to_meta(last.x, last.y, last.z).path \in DOMAIN metas

\* the header passes the tests and the entry of the slot read is in the file
EntryRead ==
    /\ ReadOfContainer
    /\ BLen(ReadMeta.data) >= entry_end(Slot(ReadPath))
    /\ ReadMeta.m.magic = META_MAGIC
    /\ ReadMeta.m.count = METATILE * METATILE

RecordedOffset == Entry(ReadMeta, ReadPath).offset
RecordedSize == to_size_t(Entry(ReadMeta, ReadPath).size)

-----------------------------------------------------------------------------
(* C7: read_from_meta fails with the corrupt-header error (-3) whenever    *)
(* the container holds fewer bytes than header_size.                       *)
C7_ShortFileCorruptHeader ==
    (ReadOfContainer /\ BLen(ReadMeta.data) < header_size) => last.res.meta = -3

-----------------------------------------------------------------------------
(* C8: read_from_meta returns at most sz and is given no buffer room       *)
(* beyond sz, for every container and also when the recorded size exceeds  *)
(* sz.  The bytes it returns are the first bytes of the recorded range:    *)
(* min(size, sz) of them when the file holds as many from the recorded     *)
(* offset on, and otherwise those up to end-of-file.                       *)

WithinCapacity ==
    /\ last.op = "read" => (last.res.meta <= last.sz /\ last.res.copied <= last.sz)
    /\ (last.op = "unpack" /\ last.status = "done")
           => \A p \in last.reads : last.res[p].ret <= unpack_buf_len

\* bytes of the file from the recorded offset on
Available == Max(0, BLen(ReadMeta.data) - RecordedOffset)

C8_TruncationSafety ==
    /\ WithinCapacity
    /\ (EntryRead /\ last.res.meta >= 0)
           => /\ last.res.ret = Min(Min(RecordedSize, last.sz), Available)
              /\ last.res.data = BSub(ReadMeta.data, RecordedOffset, last.res.ret)

\* a tile larger than the buffer of two bytes, read from a container that
\* holds it whole: the first two bytes of the rendered tile come back
C8_Witness ==
    /\ EntryRead /\ ReadPath \in DOMAIN orig
    /\ last.sz = 2 /\ RecordedSize > last.sz /\ Available >= RecordedSize
    /\ last.res.ret = 2
    /\ last.res.data = BTake(orig[ReadPath], 2)

\* C8 as the specification states it: read_from_meta returns at most sz and
\* min(size, sz) bytes come back whenever bytes do.
C8_AlwaysMinSizeCapacity ==
    /\ WithinCapacity
    /\ (EntryRead /\ last.res.meta >= 0)
           => last.res.ret = Min(RecordedSize, last.sz)

-----------------------------------------------------------------------------
(* C9: when the recorded offset of the slot lies beyond the end of the     *)
(* container, the seek succeeds, read_from_meta returns 0 with no bytes    *)
(* copied, and tile_read returns that 0 without reading the standalone     *)
(* file; the seek error (-6) is returned exactly when lseek rejects the    *)
(* offset.                                                                 *)
OffsetBeyondEOF == EntryRead /\ RecordedOffset > BLen(ReadMeta.data)

C9_SeekBeyondEOF ==
    /\ OffsetBeyondEOF
           => /\ last.res.meta = 0 /\ last.res.ret = 0 /\ last.res.data = <<>>
              /\ ~last.res.consulted
    /\ EntryRead => (last.res.meta = -6 <=> RecordedOffset < 0)

C9_Witness == OffsetBeyondEOF /\ last.sz > 0 /\ last.res.ret = 0

\* C9 as the specification states it: with the recorded offset beyond
\* end-of-file read_from_meta returns a negative result (here for a buffer
\* with room).
C9_SeekErrorBeyondEOF == (OffsetBeyondEOF /\ last.sz > 0) => last.res.meta < 0

-----------------------------------------------------------------------------
(* C10: at zoom z with 2^z < METATILE pack and unpack read, write and      *)
(* delete the 2^z x 2^z sub-tiles (x + ox, y + oy), 0 <= ox, oy < 2^z, and *)
(* no other tile; at 2^z >= METATILE the METATILE x METATILE ones.  The    *)
(* header written has count METATILE * METATILE.                           *)

ClaimedLimit == IF Pow2(zoom) < METATILE THEN Pow2(zoom) ELSE METATILE
Claimed ==
    {<<last.x + ox, last.y + oy, zoom>> :
        ox \in 0 .. ClaimedLimit - 1, oy \in 0 .. ClaimedLimit - 1}

\* the tile addresses whose file the last operation created, removed or changed
Changed ==
    {p \in DOMAIN tiles \cup DOMAIN pre.tiles :
        \/ p \notin DOMAIN tiles
        \/ p \notin DOMAIN pre.tiles
        \/ tiles[p] # pre.tiles[p]}

C10_ClippedBlocks ==
    /\ (last.op = "pack" /\ last.status \in {"abort", "nocreate", "writeerr", "done"})
           => /\ last.limit = ClaimedLimit
              /\ last.reads \subseteq Claimed
              /\ Changed \subseteq Claimed
              /\ last.status # "abort" => last.reads = Claimed
              /\ last.status = "done" => last.unlinks = Claimed
              /\ last.status \in {"writeerr", "done"}
                     => \A q \in last.creat : metas[q].m.count = METATILE * METATILE
    /\ (last.op = "unpack" /\ last.status = "done")
           => /\ last.limit = ClaimedLimit
              /\ last.reads = Claimed
              /\ last.writes \subseteq Claimed
              /\ Changed \subseteq Claimed

\* an unpack at zoom 2 wrote the 16 tiles that a pack had removed
C10_Witness ==
    /\ last.op = "unpack" /\ last.status = "done" /\ zoom = 2 /\ OnTop
    /\ Cardinality(last.writes) = 16
    /\ Changed = Claimed
    /\ DOMAIN tiles = DOMAIN orig

-----------------------------------------------------------------------------
(* Containers as pack leaves them *)

\* the last operation was a pack whose write loop wrote all `offset` bytes
PackWritten ==
    /\ last.op = "pack" /\ last.status = "done" /\ OnTop
    /\ last.pos = last.want
    /\ Top \in DOMAIN metas

Slots == 0 .. (METATILE * METATILE) - 1
BlockSlots == {Slot(p) : p \in Block}

-----------------------------------------------------------------------------
(* C11: in a container that pack wrote in full, the index entry of every   *)
(* sub-tile of the block has size > 0; the entries of the slots outside a  *)
(* clipped block (2^z < METATILE) are offset 0, size 0.                    *)
C11_BlockEntriesPositive ==
    PackWritten =>
        /\ \A p \in Block : Entry(metas[Top], p).size > 0
        /\ \A s \in Slots \ BlockSlots :
               metas[Top].m.index[s] = [offset |-> 0, size |-> 0]

\* a container written at zoom 1: 4 of its 64 entries are in use
C11_Witness ==
    /\ PackWritten /\ zoom = 1
    /\ Cardinality({s \in Slots : metas[Top].m.index[s].size > 0}) = 4

\* C11 as the specification states it: every index entry of a container
\* that pack wrote has size > 0, at every zoom level.
C11_EveryEntryPositive ==
    PackWritten => \A s \in Slots : metas[Top].m.index[s].size > 0

-----------------------------------------------------------------------------
(* C12: in a container that pack wrote in full, the first sub-tile's       *)
(* offset is header_size; the sub-tiles in x-outer, y-inner order have     *)
(* offset = previous offset + previous size and size = bytes read; the     *)
(* recorded ranges hold the bytes read, are pairwise disjoint and lie      *)
(* behind the header and index; the container's length is header_size plus *)
(* the sum of the recorded sizes.                                          *)

Visits == ClaimedLimit * ClaimedLimit
\* the k-th sub-tile visited, x outer and y inner
Visit(k) == <<(k - 1) \div ClaimedLimit, (k - 1) % ClaimedLimit, zoom>>
Visited(k) == Entry(metas[Top], Visit(k))

RECURSIVE SumSizes(_)
SumSizes(k) == IF k = 0 THEN 0 ELSE Visited(k).size + SumSizes(k - 1)

HeaderAndIndex == sizeof_meta_layout + ((METATILE * METATILE) * sizeof_entry)

C12_IndexLayout ==
    PackWritten =>
        /\ Visited(1).offset = HeaderAndIndex
        /\ \A k \in 1 .. Visits - 1 :
               Visited(k + 1).offset = Visited(k).offset + Visited(k).size
        /\ \A k \in 1 .. Visits :
               /\ Visited(k).size =
                      Min(BLen(pre.tiles[Visit(k)]), pack_buf_len - Visited(k).offset)
               /\ BSub(metas[Top].data, Visited(k).offset, Visited(k).size)
                      = BTake(pre.tiles[Visit(k)], Visited(k).size)
               /\ Visited(k).offset >= HeaderAndIndex
        /\ \A j, k \in 1 .. Visits :
               j # k => \/ Visited(j).offset + Visited(j).size <= Visited(k).offset
                        \/ Visited(k).offset + Visited(k).size <= Visited(j).offset
        /\ BLen(metas[Top].data) = HeaderAndIndex + SumSizes(Visits)

\* a container of 16 tiles of one to three bytes each
C12_Witness ==
    /\ PackWritten /\ zoom = 2
    /\ Visited(2).offset = HeaderAndIndex + 1
    /\ Visited(2).size = 3
    /\ BLen(metas[Top].data) > HeaderAndIndex + 16

-----------------------------------------------------------------------------
(* The read loops on their own: one tile of up to MaxLen bytes, standalone  *)
(* and packed, read with every capacity and every way read() may split the  *)
(* transfer in its first MaxCalls calls.                                    *)

RECURSIVE SeqsUpTo(_, _)
SeqsUpTo(S, n) ==
    IF n = 0 THEN {<<>>}
    ELSE LET shorter == SeqsUpTo(S, n - 1)
         IN shorter \cup {Append(q, v) : q \in shorter, v \in S}

\* the most bytes each of the first calls of read() moves
CapSeqs == SeqsUpTo(1 .. MaxLen, MaxCalls)

LoopEnvs ==
    {[chunk |-> "caps", caps |-> c, fail |-> f, at |-> a] :
        c \in CapSeqs, f \in {"none", "read", "read2"}, a \in {0, 1}}

InitLoops ==
    /\ zoom = 0
    /\ \E n \in 0 .. MaxLen : tiles = (<<0, 0, 0>> :> Fresh(TileId(0, 0, 0), n))
    /\ \E packed \in BOOLEAN :
          metas = IF packed
                  THEN process_meta(tiles, <<>>, 0, 0, 0, NoFault, 1).metas
                  ELSE <<>>
    /\ orig = tiles
    /\ pre = [tiles |-> tiles, metas |-> metas]
    /\ last = NoLog
    /\ steps = 0
    /\ faults = 0

\* A read changes no file: a run is one read.
ReadFileLoop ==
    /\ last = NoLog
    /\ \E sz \in 0 .. MaxLen + 1 : \E io \in LoopEnvs :
        /\ io.fail # "read2"
        /\ last' = [NoLog EXCEPT !.op = "read_from_file", !.status = "done", !.sz = sz,
                                 !.fail = io.fail, !.who = io.at,
                                 !.res = [r |-> read_from_file(tiles, 0, 0, 0, sz, io),
                                          caps |-> io.caps]]
        /\ UNCHANGED <<tiles, metas, orig, zoom, pre, steps, faults>>

ReadMetaLoop ==
    /\ last = NoLog
    /\ \E sz \in 0 .. MaxLen + 1 : \E io \in LoopEnvs :
        /\ last' = [NoLog EXCEPT !.op = "read_from_meta", !.status = "done", !.sz = sz,
                                 !.fail = io.fail, !.who = io.at,
                                 !.res = [r |-> read_from_meta(metas, 0, 0, 0, sz, io,
                                                               [offset |-> 0, size |-> 0]),
                                          caps |-> io.caps]]
        /\ UNCHANGED <<tiles, metas, orig, zoom, pre, steps, faults>>

NextLoops == ReadFileLoop \/ ReadMetaLoop

ReadLoops == InitLoops /\ [][NextLoops]_vars

-----------------------------------------------------------------------------
(* C13: when no read returns an error, the read loops of read_from_file    *)
(* and read_from_meta deliver min(requested, bytes from the start position *)
(* to end-of-file) bytes, the same bytes, however read() splits the        *)
(* transfer; with a failing read the result is the error code.             *)

TileBytes == tiles[<<0, 0, 0>>]

\* the count and the bytes a loop owes for a request of last.sz bytes
Owed ==
    /\ last.res.r.ret = Min(last.sz, BLen(TileBytes))
    /\ last.res.r.data = BTake(TileBytes, last.res.r.ret)

C13_ShortReadAccumulation ==
    /\ last.op = "read_from_file"
           => /\ last.fail = "none" => Owed
              /\ last.res.r.ret = -2 \/ Owed
    /\ (last.op = "read_from_meta" /\ <<0, 0, 0>> \in DOMAIN metas)
           => /\ last.fail = "none" => Owed
              /\ last.res.r.ret \in {-2, -7} \/ Owed

\* three bytes asked of a file of three, delivered one byte per read()
C13_Witness ==
    /\ last.op = "read_from_meta" /\ last.fail = "none"
    /\ <<0, 0, 0>> \in DOMAIN metas
    /\ last.res.caps = <<1, 1, 1>> /\ last.sz = 3
    /\ last.res.r.ret = 3 /\ last.res.r.data = TileBytes

-----------------------------------------------------------------------------
(* C14: tile_read reads the standalone file only when read_from_meta       *)
(* returned a negative result; a non-negative count, 0 included, is        *)
(* returned as it is; with no container and a standalone file, the file's  *)
(* bytes are returned.                                                     *)

NoContainer == xyz_to_meta(last.x, last.y, last.z).path \notin DOMAIN metas

C14_Fallback ==
    last.op = "read" =>
        /\ last.res.consulted <=> last.res.meta < 0
        /\ last.res.meta >= 0 => last.res.ret = last.res.meta
        /\ (NoContainer /\ ReadPath \in DOMAIN tiles /\ last.fail2 = "none")
               => /\ last.res.meta = -1
                  /\ last.res.ret = Min(last.sz, BLen(tiles[ReadPath]))
                  /\ last.res.data = BTake(tiles[ReadPath], last.res.ret)

\* no container, and the whole standalone file came back
C14_Witness ==
    /\ last.op = "read" /\ NoContainer /\ ReadPath \in DOMAIN tiles
    /\ last.res.consulted
    /\ last.res.ret > 0 /\ last.res.data = tiles[ReadPath]

-----------------------------------------------------------------------------
(* C15: process_pack on a name that does not parse, or whose address has   *)
(* index_within_meta # 0, changes no file: it reads and deletes no         *)
(* standalone tile and writes no container.                                *)

NotPacked ==
    /\ last.op = "pack"
    /\ \/ last.status = "badname"
       \/ xyz_to_meta(last.x, last.y, last.z).offset # 0

C15_PackOnlyAligned ==
    NotPacked =>
        /\ tiles = pre.tiles /\ metas = pre.metas
        /\ last.reads = {} /\ last.creat = {} /\ last.unlinks = {}

\* a pack named after an existing tile that is not the first of its block
C15_Witness ==
    /\ NotPacked /\ last.status # "badname"
    /\ <<last.x, last.y, last.z>> \in DOMAIN tiles

-----------------------------------------------------------------------------
(* C16: after a call of tile_read, process_pack or process_unpack every    *)
(* file descriptor that read_from_meta, read_from_file, process_meta or    *)
(* write_tile opened in it is closed: as many are open as before.          *)
C16_NoDescriptorLeak ==
    last.op \in {"read", "pack", "unpack"} => last.leaked = 0

-----------------------------------------------------------------------------
(* C17: whenever pack has deleted a standalone tile, the tile's index      *)
(* entry records the full length of the file that was deleted and the      *)
(* container holds the file's bytes at the recorded offset.  Stated for    *)
(* packs in which no system call fails.                                    *)
C17_NoDataLossInPack ==
    (last.op = "pack" /\ last.fail = "none" /\ OnTop /\ Top \in DOMAIN metas)
        => \A p \in DOMAIN pre.tiles :
               p \notin DOMAIN tiles
                   => /\ Entry(metas[Top], p).size = BLen(pre.tiles[p])
                      /\ Payload(metas[Top], p) = pre.tiles[p]

\* Pack loses no byte when the block fits its buffer.
NoDataLossWithinBuffer ==
    (/\ last.op = "pack" /\ last.fail = "none" /\ OnTop /\ Top \in DOMAIN metas
     /\ header_size + TotalLen(pre.tiles, Block \cap DOMAIN pre.tiles) <= pack_buf_len)
        => \A p \in DOMAIN pre.tiles :
               p \notin DOMAIN tiles
                   => /\ Entry(metas[Top], p).size = BLen(pre.tiles[p])
                      /\ Payload(metas[Top], p) = pre.tiles[p]

=============================================================================
